---- MODULE Spec2Model ----
(***************************************************************************)
(* Bank statement extractor (src/main.py): the reply of the extraction     *)
(* service is parsed into a table of transactions by                       *)
(* extract_table_from_response, and main filters, displays, exports and    *)
(* summarises it.  A Python str is modelled as a sequence of one-character *)
(* strings, so that splitting, stripping and substring search are computed *)
(* the way the code computes them.                                         *)
(***************************************************************************)
EXTENDS Integers, Sequences, FiniteSets, TLC

(* ------------------------------ bounds --------------------------------- *)

\* The number of lines of a reply of the extraction service.
MaxLines == 3

(* ------------------------- str operations ------------------------------ *)

\* The characters of the replies, in code-point order.
AsciiOrder ==
    <<" ", "(", ")", ",", "-", ".", "/", "0", "1", "2", "3", "4", "5", "6",
      "7", "8", "9", ":", "A", "B", "C", "D", "E", "F", "G", "H", "I", "J",
      "K", "L", "M", "N", "O", "P", "Q", "R", "S", "T", "U", "V", "W", "X",
      "Y", "Z", "a", "b", "c", "d", "e", "f", "g", "h", "i", "j", "k", "l",
      "m", "n", "o", "p", "q", "r", "s", "t", "u", "v", "w", "x", "y", "z",
      "|">>

\* The rank of ord(c): Python compares str by code point.
Ord(c) == CHOOSE i \in 1..Len(AsciiOrder) : AsciiOrder[i] = c

Digits == {"0", "1", "2", "3", "4", "5", "6", "7", "8", "9"}

DigitVal(c) == Ord(c) - Ord("0")

\* The characters str.strip() removes; blank is the only one the replies of
\* the model contain.
Whitespace == {" "}

RECURSIVE LStrip(_, _)
LStrip(s, chars) ==
    IF s # <<>> /\ Head(s) \in chars THEN LStrip(Tail(s), chars) ELSE s

RECURSIVE RStrip(_, _)
RStrip(s, chars) ==
    IF s # <<>> /\ s[Len(s)] \in chars
    THEN RStrip(SubSeq(s, 1, Len(s) - 1), chars)
    ELSE s

\* s.strip(chars)
StripChars(s, chars) == RStrip(LStrip(s, chars), chars)

\* s.strip()
Strip(s) == StripChars(s, Whitespace)

\* sub in s
Contains(s, sub) ==
    \E i \in 1..(Len(s) - Len(sub) + 1) : SubSeq(s, i, i + Len(sub) - 1) = sub

\* s.split(d) for a one-character delimiter d
RECURSIVE Split(_, _)
Split(s, d) ==
    IF \E i \in 1..Len(s) : s[i] = d
    THEN LET p == CHOOSE i \in 1..Len(s) :
                      s[i] = d /\ \A j \in 1..(i - 1) : s[j] # d
         IN  <<SubSeq(s, 1, p - 1)>> \o Split(SubSeq(s, p + 1, Len(s)), d)
    ELSE <<s>>

\* s.replace(c, '')
Remove(s, c) == SelectSeq(s, LAMBDA x : x # c)

\* '\n'.join(ls)
RECURSIVE JoinLines(_)
JoinLines(ls) ==
    IF ls = <<>> THEN <<>>
    ELSE IF Len(ls) = 1 THEN ls[1]
    ELSE ls[1] \o <<"\n">> \o JoinLines(Tail(ls))

\* a < b for str
RECURSIVE StrLess(_, _)
StrLess(a, b) ==
    IF b = <<>> THEN FALSE
    ELSE IF a = <<>> THEN TRUE
    ELSE IF Head(a) # Head(b) THEN Ord(Head(a)) < Ord(Head(b))
    ELSE StrLess(Tail(a), Tail(b))

RECURSIVE ParseDigits(_)
ParseDigits(s) ==
    IF s = <<>> THEN 0
    ELSE 10 * ParseDigits(SubSeq(s, 1, Len(s) - 1)) + DigitVal(s[Len(s)])

AllDigits(s) == \A i \in 1..Len(s) : s[i] \in Digits

(* ------------------------- replies of the service ---------------------- *)

\* Table:
ProseLine ==
    <<"T", "a", "b", "l", "e", ":">>

\* | Date | Concept | Amount (MXN) | Type |
HeaderLine ==
    <<"|", " ", "D", "a", "t", "e", " ", "|", " ", "C", "o", "n", "c", "e",
      "p", "t", " ", "|", " ", "A", "m", "o", "u", "n", "t", " ", "(", "M",
      "X", "N", ")", " ", "|", " ", "T", "y", "p", "e", " ", "|">>

\* |---|---|---|---|
SeparatorLine ==
    <<"|", "-", "-", "-", "|", "-", "-", "-", "|", "-", "-", "-", "|", "-",
      "-", "-", "|">>

\* | 2024-11-01 | RENTA | 12,345.00 | Expense |
RentRow ==
    <<"|", " ", "2", "0", "2", "4", "-", "1", "1", "-", "0", "1", " ", "|",
      " ", "R", "E", "N", "T", "A", " ", "|", " ", "1", "2", ",", "3", "4",
      "5", ".", "0", "0", " ", "|", " ", "E", "x", "p", "e", "n", "s", "e",
      " ", "|">>

\* | 2024-11-02 | NOMINA | 20000 | Income |
PayrollRow ==
    <<"|", " ", "2", "0", "2", "4", "-", "1", "1", "-", "0", "2", " ", "|",
      " ", "N", "O", "M", "I", "N", "A", " ", "|", " ", "2", "0", "0", "0",
      "0", " ", "|", " ", "I", "n", "c", "o", "m", "e", " ", "|">>

\* 2024-11-03|Date fee|15.50|Expense
DateFeeRow ==
    <<"2", "0", "2", "4", "-", "1", "1", "-", "0", "3", "|", "D", "a", "t",
      "e", " ", "f", "e", "e", "|", "1", "5", ".", "5", "0", "|", "E", "x",
      "p", "e", "n", "s", "e">>

\* | 2024-11-04 | CARGO | N/A | Expense |
BadAmountRow ==
    <<"|", " ", "2", "0", "2", "4", "-", "1", "1", "-", "0", "4", " ", "|",
      " ", "C", "A", "R", "G", "O", " ", "|", " ", "N", "/", "A", " ", "|",
      " ", "E", "x", "p", "e", "n", "s", "e", " ", "|">>

\* | 2024-11-05 |  | N/A | Income |
ThreeCellRow ==
    <<"|", " ", "2", "0", "2", "4", "-", "1", "1", "-", "0", "5", " ", "|",
      " ", " ", "|", " ", "N", "/", "A", " ", "|", " ", "I", "n", "c", "o",
      "m", "e", " ", "|">>

\* | 2024-11-06 | PAGO | 7 | Income | x |
FiveCellRow ==
    <<"|", " ", "2", "0", "2", "4", "-", "1", "1", "-", "0", "6", " ", "|",
      " ", "P", "A", "G", "O", " ", "|", " ", "7", " ", "|", " ", "I", "n",
      "c", "o", "m", "e", " ", "|", " ", "x", " ", "|">>

\* | pending | ABONO | -5 | Income |
PendingRow ==
    <<"|", " ", "p", "e", "n", "d", "i", "n", "g", " ", "|", " ", "A", "B",
      "O", "N", "O", " ", "|", " ", "-", "5", " ", "|", " ", "I", "n", "c",
      "o", "m", "e", " ", "|">>


\* The lines a reply of the extraction service is made of.
SampleLines ==
    { ProseLine, HeaderLine, SeparatorLine, RentRow, PayrollRow, DateFeeRow,
      BadAmountRow, ThreeCellRow, FiveCellRow, PendingRow }

RECURSIVE LineSeqs(_)
LineSeqs(n) ==
    IF n = 0 THEN { <<>> }
    ELSE LET shorter == LineSeqs(n - 1)
         IN  shorter \cup
             { Append(ls, l) : ls \in { x \in shorter : Len(x) = n - 1 },
                               l \in SampleLines }

\* message.content[0].text: the lines joined by newlines.
Replies == { JoinLines(ls) : ls \in LineSeqs(MaxLines) \ { <<>> } }

(* ------------------- extract_table_from_response ----------------------- *)

DateToken == <<"D", "a", "t", "e">>

\* '|' in line
IsCandidate(line) == Contains(line, <<"|">>)

\* 'Date' in line
IsHeader(line) == Contains(line, DateToken)

\* The cells of a line kept without stripping them.
RowCellsUntrimmed(line) == SelectSeq(Split(line, "|"), LAMBDA cell : cell # <<>>)

\* [cell.strip() for cell in line.split('|') if cell.strip()]
RowCells(line) ==
    LET cells    == Split(line, "|")
        stripped == [i \in 1..Len(cells) |-> Strip(cells[i])]
    IN  SelectSeq(stripped, LAMBDA cell : cell # <<>>)

\* The guard of the data-row branch without the start_parsing flag.
DataRowGuardNoStart(start, line) == StripChars(line, {"|", "-", " "}) # <<>>

\* start_parsing and line.strip('|- ')
DataRowGuard(start, line) ==
    start /\ StripChars(line, {"|", "-", " "}) # <<>>

\* float(s) succeeds: an optional sign, digits, at most one point and at
\* least one digit (exponents, inf, nan and underscores are in no reply).
IsFloat(s) ==
    LET t     == Strip(s)
        body  == IF t # <<>> /\ Head(t) \in {"+", "-"} THEN Tail(t) ELSE t
        parts == Split(body, ".")
    IN  /\ Len(parts) \in {1, 2}
        /\ \A i \in 1..Len(parts) : AllDigits(parts[i])
        /\ Remove(body, ".") # <<>>

\* float(s), held as a whole number of hundredths: the amounts of the
\* replies have at most two decimals.
ToFloat(s) ==
    LET t     == Strip(s)
        neg   == t # <<>> /\ Head(t) = "-"
        body  == IF t # <<>> /\ Head(t) \in {"+", "-"} THEN Tail(t) ELSE t
        parts == Split(body, ".")
        frac  == IF Len(parts) = 2 THEN parts[2] ELSE <<>>
        mag   == 100 * ParseDigits(parts[1])
                 + ParseDigits(SubSeq(frac \o <<"0", "0">>, 1, 2))
    IN  IF neg THEN 0 - mag ELSE mag

\* df['Amount (MXN)'].str.replace(',', '')
AmountColumn(rows) == [i \in 1..Len(rows) |-> Remove(rows[i][3], ",")]

\* A conversion that turns every cell that is no number into 0.
AsTypeFloatCoerce(col) ==
    [ok |-> TRUE,
     values |-> [i \in 1..Len(col) |-> IF IsFloat(col[i]) THEN ToFloat(col[i]) ELSE 0]]

\* A conversion that raises on a column without cells.
AsTypeFloatNonEmpty(col) ==
    IF col # <<>> /\ \A i \in 1..Len(col) : IsFloat(col[i])
    THEN [ok |-> TRUE, values |-> [i \in 1..Len(col) |-> ToFloat(col[i])]]
    ELSE [ok |-> FALSE, values |-> <<>>]

\* .astype(float): raises ValueError when a cell is no number.
AsTypeFloat(col) ==
    IF \A i \in 1..Len(col) : IsFloat(col[i])
    THEN [ok |-> TRUE, values |-> [i \in 1..Len(col) |-> ToFloat(col[i])]]
    ELSE [ok |-> FALSE, values |-> <<>>]

Columns == <<"Date", "Concept", "Amount (MXN)", "Type">>

NoFrame == [built |-> FALSE, columns |-> <<>>, rows |-> <<>>]

\* pd.DataFrame(table_data, columns=[...]) with the converted Amount column
Frame(rows, amounts) ==
    [built   |-> TRUE,
     columns |-> Columns,
     rows    |-> [i \in 1..Len(rows) |->
                    [Date |-> rows[i][1], Concept |-> rows[i][2],
                     Amount |-> amounts[i], Type |-> rows[i][4]]]]

(* ------------------------------- main ---------------------------------- *)

IncomeType == <<"I", "n", "c", "o", "m", "e">>

ExpenseType == <<"E", "x", "p", "e", "n", "s", "e">>

\* df['Type'].unique()
UniqueTypes(rows) == { rows[i].Type : i \in 1..Len(rows) }

\* df['Date'].min()
MinDate(rows) ==
    LET ds == { rows[i].Date : i \in 1..Len(rows) }
    IN  CHOOSE d \in ds : \A e \in ds : ~StrLess(e, d)

\* df['Date'].max()
MaxDate(rows) ==
    LET ds == { rows[i].Date : i \in 1..Len(rows) }
    IN  CHOOSE d \in ds : \A e \in ds : ~StrLess(d, e)

\* pd.to_datetime(s) on the dates of the replies: YYYY-MM-DD parses, to the
\* day number YYYYMMDD; any other text raises.
ToDatetime(s) ==
    IF /\ Len(s) = 10
       /\ s[5] = "-" /\ s[8] = "-"
       /\ AllDigits(SubSeq(s, 1, 4) \o SubSeq(s, 6, 7) \o SubSeq(s, 9, 10))
    THEN [ok |-> TRUE,
          value |-> ParseDigits(SubSeq(s, 1, 4) \o SubSeq(s, 6, 7) \o SubSeq(s, 9, 10))]
    ELSE [ok |-> FALSE, value |-> 0]

\* The days a user can pick in the date-range widget: the days of the table.
DateChoices(rows) ==
    { ToDatetime(rows[i].Date).value :
        i \in { j \in 1..Len(rows) : ToDatetime(rows[j].Date).ok } }

\* date in selected range
InRange(r, range) ==
    /\ ToDatetime(r.Date).ok
    /\ range[1] <= ToDatetime(r.Date).value
    /\ ToDatetime(r.Date).value <= range[2]

\* A filter that applies the type selection and the date range.
ApplyFiltersWithDates(rows, types, range) ==
    SelectSeq(rows, LAMBDA r : r.Type \in types /\ InRange(r, range))

\* mask = df['Type'].isin(selected_types); df_filtered = df[mask]
ApplyFilters(rows, types, range) ==
    SelectSeq(rows, LAMBDA r : r.Type \in types)

RECURSIVE SumAmounts(_)
SumAmounts(rows) ==
    IF rows = <<>> THEN 0 ELSE Head(rows).Amount + SumAmounts(Tail(rows))

\* df[df['Type'] == t]['Amount (MXN)'].sum()
TotalOf(rows, t) == SumAmounts(SelectSeq(rows, LAMBDA r : r.Type = t))

\* total_income, total_expenses and balance
Metrics(rows) ==
    [income   |-> TotalOf(rows, IncomeType),
     expenses |-> TotalOf(rows, ExpenseType),
     balance  |-> TotalOf(rows, IncomeType) - TotalOf(rows, ExpenseType)]

NoMetrics == [income |-> 0, expenses |-> 0, balance |-> 0]

\* df['Type'].value_counts()
ValueCounts(rows) ==
    [t \in UniqueTypes(rows) |->
        Cardinality({ i \in 1..Len(rows) : rows[i].Type = t })]

(* ------------------------------ state ---------------------------------- *)

VARIABLES
    pc,             \* the statement of main that runs next
    error,          \* the step whose exception ended main, "" if none
    response,       \* the text process_pdf returned
    lines,          \* response.split('\n')
    idx,            \* the position of the for loop in lines
    start_parsing,
    table_data,
    row_src,        \* for each row of table_data, the index of its line
    header_hits,    \* the indexes of the lines that took the header branch
    df,
    selected_types,
    date_range,
    df_filtered,
    shown,          \* the elements the page displays
    st_table,       \* the rows of the displayed transaction table
    tmp_exists,     \* the temporary .xlsx file is on disk
    tmp_content,    \* the rows written to the temporary file
    excel_link,     \* the rows encoded in the download link
    metrics,
    counts

vars ==
    <<pc, error, response, lines, idx, start_parsing, table_data, row_src,
      header_hits, df, selected_types, date_range, df_filtered, shown,
      st_table, tmp_exists, tmp_content, excel_link, metrics, counts>>

parserVars == <<lines, idx, start_parsing, table_data, row_src, header_hits>>

filterVars == <<selected_types, date_range, df_filtered>>

exportVars == <<tmp_exists, tmp_content, excel_link>>

pageVars == <<shown, st_table, metrics, counts>>

Init ==
    /\ pc = "upload"
    /\ error = ""
    /\ response = <<>>
    /\ lines = <<>>
    /\ idx = 1
    /\ start_parsing = FALSE
    /\ table_data = <<>>
    /\ row_src = <<>>
    /\ header_hits = {}
    /\ df = NoFrame
    /\ selected_types = {}
    /\ date_range = <<0, 0>>
    /\ df_filtered = <<>>
    /\ shown = {}
    /\ st_table = <<>>
    /\ tmp_exists = FALSE
    /\ tmp_content = <<>>
    /\ excel_link = <<>>
    /\ metrics = NoMetrics
    /\ counts = <<>>

\* An exception leaves main: the script stops at the step that raised.
Raise(step) ==
    /\ pc' = "failed"
    /\ error' = step

\* response = process_pdf(pdf_content): the rasterizer or the service call
\* raises, or the service replies.
ProcessPdf ==
    /\ pc = "upload"
    /\ \/ /\ Raise("process_pdf")
          /\ UNCHANGED response
       \/ /\ response' \in Replies
          /\ pc' = "extract"
          /\ UNCHANGED error
    /\ UNCHANGED <<parserVars, df, filterVars, exportVars, pageVars>>

\* lines = response.split('\n'); table_data = []; start_parsing = False
ExtractBegin ==
    /\ pc = "extract"
    /\ lines' = Split(response, "\n")
    /\ idx' = 1
    /\ table_data' = <<>>
    /\ row_src' = <<>>
    /\ header_hits' = {}
    /\ start_parsing' = FALSE
    /\ pc' = "scan"
    /\ UNCHANGED <<error, response, df, filterVars, exportVars, pageVars>>

\* One iteration of the for loop over lines.
ScanLine ==
    /\ pc = "scan"
    /\ idx <= Len(lines)
    /\ LET line == lines[idx]
       IN  IF IsCandidate(line) /\ IsHeader(line)
           THEN /\ start_parsing' = TRUE
                /\ header_hits' = header_hits \cup {idx}
                /\ UNCHANGED <<table_data, row_src>>
           ELSE IF /\ IsCandidate(line)
                   /\ DataRowGuard(start_parsing, line)
                   /\ Len(RowCells(line)) = 4
           THEN /\ table_data' = Append(table_data, RowCells(line))
                /\ row_src' = Append(row_src, idx)
                /\ UNCHANGED <<start_parsing, header_hits>>
           ELSE UNCHANGED <<start_parsing, header_hits, table_data, row_src>>
    /\ idx' = idx + 1
    /\ UNCHANGED <<pc, error, response, lines, df, filterVars, exportVars, pageVars>>

\* The DataFrame is built and its Amount column converted; the conversion
\* raises ValueError, or extract_table_from_response returns df.
BuildFrame ==
    /\ pc = "scan"
    /\ idx > Len(lines)
    /\ LET conv == AsTypeFloat(AmountColumn(table_data))
       IN  IF conv.ok
           THEN /\ df' = Frame(table_data, conv.values)
                /\ pc' = "multiselect"
                /\ UNCHANGED error
           ELSE /\ Raise("ValueError")
                /\ UNCHANGED df
    /\ UNCHANGED <<response, parserVars, filterVars, exportVars, pageVars>>

\* selected_types = st.multiselect(...): any subset of the types of df.
Multiselect ==
    /\ pc = "multiselect"
    /\ selected_types' \in SUBSET UniqueTypes(df.rows)
    /\ pc' = "date_input"
    /\ UNCHANGED <<error, response, parserVars, df, date_range, df_filtered,
                   exportVars, pageVars>>

\* date_range = st.date_input(value=(to_datetime(min), to_datetime(max))).
\* Over an empty table min and max are NaN and the widget gets NaT: whether
\* it raises is left open.
DateInput ==
    /\ pc = "date_input"
    /\ IF df.rows = <<>>
       THEN \/ /\ Raise("date_input")
               /\ UNCHANGED date_range
            \/ /\ pc' = "table"
               /\ UNCHANGED <<error, date_range>>
       ELSE IF ToDatetime(MinDate(df.rows)).ok /\ ToDatetime(MaxDate(df.rows)).ok
       THEN /\ \E lo \in DateChoices(df.rows), hi \in DateChoices(df.rows) :
                  /\ lo <= hi
                  /\ date_range' = <<lo, hi>>
            /\ pc' = "table"
            /\ UNCHANGED error
       ELSE /\ Raise("date_input")
            /\ UNCHANGED date_range
    /\ UNCHANGED <<response, parserVars, df, selected_types, df_filtered,
                   exportVars, pageVars>>

\* df_filtered = df[mask]; st.dataframe(df_filtered, ...)
ShowTable ==
    /\ pc = "table"
    /\ df_filtered' = ApplyFilters(df.rows, selected_types, date_range)
    /\ st_table' = df_filtered'
    /\ shown' = shown \cup {"table"}
    /\ pc' = "preview"
    /\ UNCHANGED <<error, response, parserVars, df, selected_types, date_range,
                   exportVars, metrics, counts>>

\* if st.button("Preview Excel Format"): st.dataframe(df_filtered)
PreviewButton ==
    /\ pc = "preview"
    /\ \E clicked \in BOOLEAN :
          shown' = IF clicked THEN shown \cup {"preview"} ELSE shown
    /\ pc' = "tempfile"
    /\ UNCHANGED <<error, response, parserVars, df, filterVars, exportVars,
                   st_table, metrics, counts>>

\* with tempfile.NamedTemporaryFile(delete=False, suffix='.xlsx') as tmp
CreateTemp ==
    /\ pc = "tempfile"
    /\ \/ /\ Raise("tempfile")
          /\ UNCHANGED tmp_exists
       \/ /\ tmp_exists' = TRUE
          /\ pc' = "to_excel"
          /\ UNCHANGED error
    /\ UNCHANGED <<response, parserVars, df, filterVars, tmp_content,
                   excel_link, pageVars>>

\* df.to_excel(tmp.name, index=False): the writer raises, or writes the rows.
ToExcel ==
    /\ pc = "to_excel"
    /\ \/ /\ Raise("to_excel")
          /\ UNCHANGED tmp_content
       \/ /\ tmp_content' = df_filtered
          /\ pc' = "read_back"
          /\ UNCHANGED error
    /\ UNCHANGED <<response, parserVars, df, filterVars, tmp_exists,
                   excel_link, pageVars>>

\* with open(tmp.name, 'rb') as f: excel_data = f.read()
ReadBack ==
    /\ pc = "read_back"
    /\ \/ /\ Raise("open")
          /\ UNCHANGED excel_link
       \/ /\ excel_link' = tmp_content
          /\ pc' = "unlink"
          /\ UNCHANGED error
    /\ UNCHANGED <<response, parserVars, df, filterVars, tmp_exists,
                   tmp_content, pageVars>>

\* os.unlink(tmp.name)
Unlink ==
    /\ pc = "unlink"
    /\ tmp_exists' = FALSE
    /\ pc' = "link"
    /\ UNCHANGED <<error, response, parserVars, df, filterVars, tmp_content,
                   excel_link, pageVars>>

\* return the data URI; st.markdown(<a href=excel_link ...>)
ShowLink ==
    /\ pc = "link"
    /\ shown' = shown \cup {"link"}
    /\ pc' = "summary"
    /\ UNCHANGED <<error, response, parserVars, df, filterVars, exportVars,
                   st_table, metrics, counts>>

\* The summary computed over the filtered rows.
SummaryOverFiltered ==
    /\ pc = "summary"
    /\ metrics' = Metrics(df_filtered)
    /\ shown' = shown \cup {"metrics"}
    /\ pc' = "chart"
    /\ UNCHANGED <<error, response, parserVars, df, filterVars, exportVars,
                   st_table, counts>>

\* total_income, total_expenses, balance; the three st.metric calls
Summary ==
    /\ pc = "summary"
    /\ metrics' = Metrics(df.rows)
    /\ shown' = shown \cup {"metrics"}
    /\ pc' = "chart"
    /\ UNCHANGED <<error, response, parserVars, df, filterVars, exportVars,
                   st_table, counts>>

\* transaction_counts = df['Type'].value_counts(); st.bar_chart(...)
BarChart ==
    /\ pc = "chart"
    /\ counts' = ValueCounts(df.rows)
    /\ shown' = shown \cup {"chart"}
    /\ pc' = "done"
    /\ UNCHANGED <<error, response, parserVars, df, filterVars, exportVars,
                   st_table, metrics>>

Next ==
    \/ ProcessPdf
    \/ ExtractBegin
    \/ ScanLine
    \/ BuildFrame
    \/ Multiselect
    \/ DateInput
    \/ ShowTable
    \/ PreviewButton
    \/ CreateTemp
    \/ ToExcel
    \/ ReadBack
    \/ Unlink
    \/ ShowLink
    \/ Summary
    \/ BarChart

Spec == Init /\ [][Next]_vars

(* ------------------------------ claims --------------------------------- *)

\* The index of the header marker: the first line that contains both '|'
\* and 'Date'; 0 if there is none.
FirstHeader(ls) ==
    IF \E i \in 1..Len(ls) : IsCandidate(ls[i]) /\ IsHeader(ls[i])
    THEN CHOOSE i \in 1..Len(ls) :
            /\ IsCandidate(ls[i]) /\ IsHeader(ls[i])
            /\ \A j \in 1..(i - 1) : ~(IsCandidate(ls[j]) /\ IsHeader(ls[j]))
    ELSE 0

\* The trimmed cells of a line that are not empty, in order.
TrimmedCells(line) ==
    LET parts == Split(line, "|")
        keep  == { j \in 1..Len(parts) : Strip(parts[j]) # <<>> }
        nth(n) == CHOOSE j \in keep : Cardinality({ m \in keep : m < j }) = n - 1
    IN  [n \in 1..Cardinality(keep) |-> Strip(parts[nth(n)])]

\* A line with four non-empty cells whose amount cell is a number once its
\* commas are removed.
IsDataRow(line) ==
    /\ Len(TrimmedCells(line)) = 4
    /\ IsFloat(Remove(TrimmedCells(line)[3], ","))

AfterHeader(i) == FirstHeader(lines) # 0 /\ i > FirstHeader(lines)

\* The header marker of the reply is the header row the prompt asks for.
PromptHeader ==
    FirstHeader(lines) # 0 /\ lines[FirstHeader(lines)] = HeaderLine

\* The rows of table_data that come from line i.
RowsFrom(i) == { k \in 1..Len(row_src) : row_src[k] = i }

ScanFinished == pc \notin {"upload", "extract"} /\ idx > Len(lines)

\* extract_table_from_response has ended, by a return or by an exception.
ExtractEnded ==
    /\ pc \notin {"upload", "extract", "scan"}
    /\ error # "process_pdf"

BadAmount(row) == ~IsFloat(Remove(row[3], ","))

Trimmed(cell) ==
    /\ cell # <<>>
    /\ Head(cell) \notin Whitespace
    /\ cell[Len(cell)] \notin Whitespace

\* C1: every line after the header marker that is a valid four-column row
\* yields exactly one record, whose Date, Concept, Amount and Type are the
\* trimmed cells of the line (Amount with its commas removed), whatever the
\* cells contain.  Stated for the replies that start their table with the
\* header row of the prompt and that the function returns a table for, and
\* for rows whose amount is a number.
C1_ValidRowYieldsOneRecord ==
    (df.built /\ PromptHeader) =>
        \A i \in 1..Len(lines) :
            (AfterHeader(i) /\ IsDataRow(lines[i])) =>
                /\ Cardinality(RowsFrom(i)) = 1
                /\ \A k \in RowsFrom(i) :
                      df.rows[k] =
                          [Date    |-> TrimmedCells(lines[i])[1],
                           Concept |-> TrimmedCells(lines[i])[2],
                           Amount  |-> ToFloat(Remove(TrimmedCells(lines[i])[3], ",")),
                           Type    |-> TrimmedCells(lines[i])[4]]

\* C2: no line before the header marker contributes a record, whatever it
\* contains: every row of table_data comes from a line after the marker.
C2_NoRecordBeforeHeader ==
    /\ Len(row_src) = Len(table_data)
    /\ \A k \in 1..Len(row_src) : AfterHeader(row_src[k])
    /\ df.built => Len(df.rows) = Len(row_src)

\* A reply with a four-cell row before its header marker has been parsed
\* into a table that holds a record.
C2_Witness ==
    /\ df.built
    /\ df.rows # <<>>
    /\ \E i \in 1..Len(lines) :
          /\ i < FirstHeader(lines)
          /\ IsDataRow(lines[i])
          /\ RowsFrom(i) = {}

\* C3: every record has exactly four non-empty trimmed fields; a candidate
\* line after the header whose count of non-empty trimmed cells is not four
\* is dropped, the drop raises nothing, and the records of the other lines
\* are what they are without it.
C3_FourTrimmedFields ==
    /\ \A k \in 1..Len(table_data) :
          /\ Len(table_data[k]) = 4
          /\ \A j \in 1..4 : Trimmed(table_data[k][j])
          /\ table_data[k] = TrimmedCells(lines[row_src[k]])
    /\ \A k \in 1..(Len(row_src) - 1) : row_src[k] < row_src[k + 1]
    /\ \A i \in 1..Len(lines) :
          Len(TrimmedCells(lines[i])) # 4 => RowsFrom(i) = {}
    /\ \A i \in 1..(idx - 1) :
          ( /\ i <= Len(lines)
            /\ AfterHeader(i)
            /\ ~IsHeader(lines[i])
            /\ StripChars(lines[i], {"|", "-", " "}) # <<>>
            /\ Len(TrimmedCells(lines[i])) = 4 ) => Cardinality(RowsFrom(i)) = 1
    /\ (pc = "failed" /\ error = "ValueError") =>
          \E k \in 1..Len(table_data) : BadAmount(table_data[k])
    /\ df.built =>
          \A k \in 1..Len(df.rows) :
              /\ Trimmed(df.rows[k].Date)
              /\ Trimmed(df.rows[k].Concept)
              /\ Trimmed(df.rows[k].Type)

\* A line with three and a line with five non-empty cells were dropped
\* after the header, and the table of the remaining row was built and shown.
C3_Witness ==
    /\ pc = "done"
    /\ df.rows # <<>>
    /\ \E i \in 1..Len(lines) :
          /\ AfterHeader(i)
          /\ IsCandidate(lines[i])
          /\ StripChars(lines[i], {"|", "-", " "}) # <<>>
          /\ Len(TrimmedCells(lines[i])) \notin {0, 4}
          /\ RowsFrom(i) = {}

\* C4: when a kept row has an amount that is no number once its commas are
\* removed, extract_table_from_response fails as a whole: no table is
\* returned, not even for the rows whose amounts are numbers, and main
\* displays no table, metric or export link.
C4_BadAmountFailsWhole ==
    (\E k \in 1..Len(table_data) : BadAmount(table_data[k])) =>
        /\ ~df.built
        /\ df.rows = <<>>
        /\ shown = {}
        /\ pc \in {"scan", "failed"}
        /\ pc = "failed" => error = "ValueError"

\* The conversion raised on a table that holds a row with a numeric amount
\* and a row with a non-numeric one.
C4_Witness ==
    /\ pc = "failed"
    /\ error = "ValueError"
    /\ \E k \in 1..Len(table_data) : BadAmount(table_data[k])
    /\ \E k \in 1..Len(table_data) : ~BadAmount(table_data[k])

\* C5: the pipeline of one upload is all-or-nothing: when a step fails,
\* no record has been displayed.
C5_AllOrNothing ==
    pc = "failed" => ("table" \notin shown \/ st_table = <<>>)

\* C6: the temporary .xlsx file no longer exists when
\* create_excel_download_link ends, by a return or by an exception.
C6_TempFileReleased ==
    (pc \in {"link", "summary", "chart", "done"}
        \/ (pc = "failed" /\ error \in {"tempfile", "to_excel", "open"}))
    => ~tmp_exists

\* C7: the displayed and exported set holds exactly the records whose Type
\* is selected and whose Date lies in the selected date range.
C7_FilteredByTypeAndDate ==
    /\ "table" \in shown =>
          st_table = ApplyFiltersWithDates(df.rows, selected_types, date_range)
    /\ "link" \in shown =>
          excel_link = ApplyFiltersWithDates(df.rows, selected_types, date_range)

\* No row survives the parsing of these lines: there is no header marker,
\* or every line after it is no candidate, is made of separator characters
\* only, or does not have exactly four non-empty cells.
NoRowSurvives(ls) ==
    \/ FirstHeader(ls) = 0
    \/ \A i \in (FirstHeader(ls) + 1)..Len(ls) :
          \/ ~IsCandidate(ls[i])
          \/ StripChars(ls[i], {"|", "-", " "}) = <<>>
          \/ Len(TrimmedCells(ls[i])) # 4

\* C8: when no row survives parsing, extract_table_from_response returns an
\* empty table with the four canonical columns and raises nothing.
C8_EmptyTableNoError ==
    (ExtractEnded /\ (NoRowSurvives(lines) \/ table_data = <<>>)) =>
        /\ df.built
        /\ df.rows = <<>>
        /\ df.columns = <<"Date", "Concept", "Amount (MXN)", "Type">>
        /\ error # "ValueError"

\* The function returned an empty table for a reply whose header marker is
\* followed by a separator line.
C8_Witness ==
    /\ df.built
    /\ df.rows = <<>>
    /\ FirstHeader(lines) # 0
    /\ \E i \in 1..Len(lines) : AfterHeader(i) /\ lines[i] = SeparatorLine

\* C9: exactly one line is treated as the header marker and discarded, the
\* first candidate line that contains 'Date'; a later candidate line that
\* contains 'Date' is processed as a data row.  Stated for the replies that
\* start their table with the header row of the prompt and for the later
\* lines that are data rows.
C9_OnlyFirstHeaderDiscarded ==
    PromptHeader =>
        \A i \in header_hits :
            i = FirstHeader(lines) \/ ~IsDataRow(lines[i])

\* The amounts of the parsed rows of type t, summed over the whole table.
RECURSIVE ParsedTotal(_, _)
ParsedTotal(rows, t) ==
    IF rows = <<>> THEN 0
    ELSE (IF Head(rows)[4] = t THEN ToFloat(Remove(Head(rows)[3], ",")) ELSE 0)
         + ParsedTotal(Tail(rows), t)

\* C10: the summary depends on the whole parsed table only, whatever types
\* and date range are selected, while the displayed table and the export
\* hold the rows of the selected types.
C10_SummaryOverWholeTable ==
    /\ "metrics" \in shown =>
          /\ metrics.income = ParsedTotal(table_data, IncomeType)
          /\ metrics.expenses = ParsedTotal(table_data, ExpenseType)
          /\ metrics.balance = metrics.income - metrics.expenses
    /\ "chart" \in shown =>
          \A t \in DOMAIN counts :
              counts[t] = Cardinality({ k \in 1..Len(table_data) : table_data[k][4] = t })
    /\ "chart" \in shown =>
          DOMAIN counts = { table_data[k][4] : k \in 1..Len(table_data) }
    /\ "table" \in shown =>
          /\ Len(st_table) = Cardinality({ k \in 1..Len(df.rows) :
                                             df.rows[k].Type \in selected_types })
          /\ \A k \in 1..Len(st_table) : st_table[k].Type \in selected_types
    /\ "link" \in shown => excel_link = st_table

\* The page shows the summary of a table with income and expenses while the
\* transaction table shows the expenses only.
C10_Witness ==
    /\ pc = "done"
    /\ selected_types = {ExpenseType}
    /\ metrics.income > 0
    /\ st_table # <<>>
    /\ Len(st_table) < Len(df.rows)
    /\ date_range[1] = date_range[2]

====
